---- MODULE Spec2Model ----
(***************************************************************************)
(* State-machine model of the Voice Generator front end                    *)
(* (src/frontend/script.js): the synthesis request orchestrator, the       *)
(* hardware/model gate, the debounced voice preview and the audio-artifact *)
(* bookkeeping.                                                            *)
(*                                                                         *)
(* The browser runs the script on one thread: every handler below runs to  *)
(* its next suspension point (an await or a timer) as one atomic action.   *)
(***************************************************************************)
EXTENDS Integers, Sequences, FiniteSets, TLC

\* ------------------------------------------------------------------------
\* Bounds of the model
\* ------------------------------------------------------------------------

\* Number of calls to /api/synthesize the model lets a session issue.
MaxSubmits == 2

\* Number of playVoicePreview calls the model lets a session make.
MaxPreviews == 3

\* Last instant (in milliseconds) the model's clock reaches.
MaxTime == 600

\* ------------------------------------------------------------------------
\* Program constants
\* ------------------------------------------------------------------------

\* script.js:208  text.length > 10000
MaxTextLen == 10000

\* script.js:294  setTimeout(..., 300)
PreviewDelay == 300

\* Steps of the model's clock, in milliseconds.
Ticks == {100}

\* A JavaScript null / undefined for string-valued fields, and for
\* state.hardware (script.js:21).
null == "null"
NoHardware == [null |-> TRUE]

\* ------------------------------------------------------------------------
\* Values the environment supplies
\* ------------------------------------------------------------------------

\* The content of the text area: `lead` white-space characters, then `body`
\* characters that begin and end with a non-white-space character, then
\* `trail` white-space characters.  A text of white space only has body 0
\* and all its characters counted in `lead`.
Text(lead, body, trail) == [lead |-> lead, body |-> body, trail |-> trail]

Texts ==
    { Text(0, 0, 0), Text(1, 0, 0), Text(0, MaxTextLen, 0), Text(0, MaxTextLen, 1),
      Text(0, MaxTextLen + 1, 0) }

\* String.prototype.length
Length(s) == s.lead + s.body + s.trail

\* String.prototype.trim (script.js:200): drops the white space at both ends.
Trim(s) == Text(0, s.body, 0)

VoiceIds == {"am_michael", "af_heart"}

\* A voice id a server may name as its default without listing it.
UnlistedVoice == "bf_emma"

\* The descriptor's display name (data.voices[id].name).
VoiceName(id) == IF id = "am_michael" THEN "Michael"
                 ELSE IF id = "af_heart" THEN "Heart" ELSE "Emma"

Models == {"kokoro", "pro"}

\* Bodies of GET /api/system.
HardwareResponses ==
    { [platform |-> "GPU_READY", can_run_pro |-> TRUE],
      [platform |-> "GPU_DRIVER_MISSING", can_run_pro |-> FALSE],
      [platform |-> "CPU_ONLY", can_run_pro |-> FALSE] }

\* Bodies of GET /api/voices.
VoicesResponses ==
    { [success |-> TRUE, voices |-> VoiceIds, default |-> "am_michael"],
      [success |-> TRUE, voices |-> {"af_heart"}, default |-> "af_heart"],
      [success |-> TRUE, voices |-> {"af_heart"}, default |-> UnlistedVoice],
      [success |-> FALSE, voices |-> {}, default |-> null] }

\* Successful bodies of POST /api/synthesize: audio_url, audio_url_mp3 (null
\* when the field is missing) and duration in tenths of a second.
Results ==
    { [audio_url |-> "/files/a.wav", audio_url_mp3 |-> "/files/a.mp3", duration |-> 12],
      [audio_url |-> "/files/a.wav", audio_url_mp3 |-> null, duration |-> 12],
      [audio_url |-> "/files/b.wav", audio_url_mp3 |-> "/files/b.mp3", duration |-> 750],
      [audio_url |-> "/files/b.wav", audio_url_mp3 |-> null, duration |-> 750] }

\* The ways a call to POST /api/synthesize resolves.
\*   reject : fetch() rejects (network failure); message is error.message
\*   badjson: response.json() rejects; message is the SyntaxError's message
\*   json   : a parsed body `data` with response.ok = ok
Outcome(kind, ok, message, success, detail, url, mp3, duration) ==
    [kind |-> kind, ok |-> ok, message |-> message, success |-> success,
     detail |-> detail, audio_url |-> url, audio_url_mp3 |-> mp3,
     duration |-> duration]

Outcomes ==
    { Outcome("reject", FALSE, "Failed to fetch", FALSE, null, null, null, 0),
      Outcome("badjson", TRUE, "Unexpected token < in JSON", FALSE, null, null, null, 0) }
    \cup { Outcome("json", FALSE, "", FALSE, d, null, null, 0) :
             d \in {null, "Voice not found"} }
    \cup { Outcome("json", TRUE, "", FALSE, null, null, null, 0) }
    \cup { Outcome("json", TRUE, "", TRUE, null, r.audio_url, r.audio_url_mp3, r.duration) :
             r \in Results }

\* A failed synthesis: anything but a 2xx answer with success = true.
Failed(o) == ~(o.kind = "json" /\ o.ok /\ o.success)

\* JavaScript truthiness of a string-valued field.
Truthy(s) == s # null /\ s # ""

\* a || b on strings
OrElse(a, b) == IF Truthy(a) THEN a ELSE b

\* ------------------------------------------------------------------------
\* State
\* ------------------------------------------------------------------------

VARIABLES
    \* the `state` object (script.js:11-22)
    selectedVoice, isGenerating, currentAudioUrl, currentAudioUrlMp3, voices,
    previewAudio, previewTimeout, currentModel, hardware,
    \* the DOM (script.js:28-52)
    surface,            \* which of emptyState / loadingState / audioPlayer is not hidden
    generateBtnDisabled,\* elements.generateBtn.disabled
    downloadMp3Shown,   \* elements.downloadMp3Btn.style.display = 'flex'
    audioSrc,           \* elements.audioElement.src
    voiceUsed,          \* elements.voiceUsed.textContent, without its "Voice: " prefix
    listening,          \* setupEventListeners has run
    \* the event loop
    systemFetch,        \* GET /api/system: "pending" or "done"
    voicesFetch,        \* GET /api/voices: "pending" or "done"
    inflight,           \* calls to POST /api/synthesize that have not resolved
    submitted,          \* number of calls to POST /api/synthesize issued so far
    timers,             \* pending setTimeout handles of the preview
    now,                \* the clock, in milliseconds
    previewSrc,         \* state.previewAudio.src: the voice id of /api/preview/{id}
    previewPlaying,     \* the preview audio is playing
    \* history
    previewCalls,       \* the playVoicePreview calls so far: <<[voice, at]>>
    previewFetched,     \* indices of the calls whose timer fired
    previewWanted,      \* the last preview operation was playVoicePreview
    stoppedAt,          \* instant of the last stopVoicePreview, -1 if none
    event,              \* the event the last action handled
    effects             \* what the last action emitted: toasts, fetches, ...

stateVars == <<selectedVoice, isGenerating, currentAudioUrl, currentAudioUrlMp3,
               voices, currentModel, hardware>>
domVars == <<surface, generateBtnDisabled, downloadMp3Shown, audioSrc, voiceUsed,
             listening>>
loopVars == <<systemFetch, voicesFetch, inflight, submitted>>
previewVars == <<previewAudio, previewTimeout, timers, previewSrc, previewPlaying,
                 previewCalls, previewFetched, previewWanted, stoppedAt>>
vars == <<stateVars, domVars, loopVars, previewVars, now, event, effects>>

\* ------------------------------------------------------------------------
\* Effects
\* ------------------------------------------------------------------------

\* showToast(message, type) (script.js:499-524)
showToast(message, type) == [eff |-> "toast", message |-> message, type |-> type]

\* fetch(url, ...)
Fetch(url, body) == [eff |-> "fetch", url |-> url, body |-> body]
NoBody == [method |-> "GET"]

Toasts(es) == { i \in 1..Len(es) : es[i].eff = "toast" }
ErrorToasts(es) == { i \in Toasts(es) : es[i].type = "error" }
Fetches(es, url) == { i \in 1..Len(es) : es[i].eff = "fetch" /\ es[i].url = url }

\* formatDuration(seconds) (script.js:489-497), on tenths of a second.
formatDuration(d) ==
    LET mins == d \div 600
        secs == (d % 600) \div 10
    IN IF mins > 0 THEN ToString(mins) \o "m " \o ToString(secs) \o "s"
       ELSE ToString(secs) \o "s"

\* ------------------------------------------------------------------------
\* Initial state: the script has loaded and DOMContentLoaded has run
\* initializeApp up to its first await (script.js:58-67).
\* ------------------------------------------------------------------------

Init ==
    /\ selectedVoice = "am_michael"
    /\ isGenerating = FALSE
    /\ currentAudioUrl = null
    /\ currentAudioUrlMp3 = null
    /\ voices = {}
    /\ previewAudio = FALSE
    /\ previewTimeout = 0
    /\ currentModel = "kokoro"
    /\ hardware = NoHardware
    /\ surface = "empty"
    /\ generateBtnDisabled = FALSE
    /\ downloadMp3Shown = FALSE
    /\ audioSrc = null
    /\ voiceUsed = null
    /\ listening = FALSE
    /\ systemFetch = "pending"
    /\ voicesFetch = "pending"
    /\ inflight = {}
    /\ submitted = 0
    /\ timers = {}
    /\ now = 0
    /\ previewSrc = null
    /\ previewPlaying = FALSE
    /\ previewCalls = <<>>
    /\ previewFetched = {}
    /\ previewWanted = FALSE
    /\ stoppedAt = -1
    /\ event = [op |-> "init"]
    /\ effects = << Fetch("/api/system", NoBody), Fetch("/api/voices", NoBody) >>

\* ------------------------------------------------------------------------
\* Start-up: checkHardwareStatus and loadVoices resume
\* ------------------------------------------------------------------------

\* checkHardwareStatus after its awaits (script.js:89-143); the page has the
\* .model-badge element, so the body is stored.
checkHardwareStatus(data) ==
    /\ systemFetch = "pending"
    /\ systemFetch' = "done"
    /\ hardware' = data
    /\ event' = [op |-> "checkHardwareStatus", arg |-> data]
    /\ effects' = <<>>
    /\ UNCHANGED <<selectedVoice, isGenerating, currentAudioUrl, currentAudioUrlMp3,
                   voices, currentModel, domVars, voicesFetch, inflight, submitted,
                   previewVars, now>>

\* checkHardwareStatus when fetch or response.json() rejects (script.js:144-146).
checkHardwareStatusFails ==
    /\ systemFetch = "pending"
    /\ systemFetch' = "done"
    /\ event' = [op |-> "checkHardwareStatusFails", arg |-> null]
    /\ effects' = << [eff |-> "log", message |-> "Failed to check hardware:"] >>
    /\ UNCHANGED <<stateVars, domVars, voicesFetch, inflight, submitted, previewVars, now>>

\* loadVoices after its awaits (script.js:179-185), then the rest of
\* initializeApp (script.js:69-79), which runs in the same turn.
loadVoices(data) ==
    /\ voicesFetch = "pending"
    /\ voicesFetch' = "done"
    /\ IF data.success
       THEN voices' = data.voices /\ selectedVoice' = data.default
       ELSE UNCHANGED <<voices, selectedVoice>>
    /\ listening' = TRUE
    /\ previewAudio' = TRUE
    /\ event' = [op |-> "loadVoices", arg |-> data]
    /\ effects' = <<>>
    /\ UNCHANGED <<isGenerating, currentAudioUrl, currentAudioUrlMp3, currentModel,
                   hardware, surface, generateBtnDisabled, downloadMp3Shown, audioSrc,
                   voiceUsed, systemFetch, inflight, submitted, previewTimeout, timers,
                   previewSrc, previewPlaying, previewCalls, previewFetched,
                   previewWanted, stoppedAt, now>>

\* loadVoices when fetch or response.json() rejects (script.js:186-196), then
\* the rest of initializeApp.
loadVoicesFails ==
    /\ voicesFetch = "pending"
    /\ voicesFetch' = "done"
    /\ voices' = {"am_michael", "af_heart"}
    /\ listening' = TRUE
    /\ previewAudio' = TRUE
    /\ event' = [op |-> "loadVoicesFails", arg |-> null]
    /\ effects' = << [eff |-> "log", message |-> "Failed to load voices:"],
                     showToast("Failed to load voices. Using defaults.", "error") >>
    /\ UNCHANGED <<selectedVoice, isGenerating, currentAudioUrl, currentAudioUrlMp3,
                   currentModel, hardware, surface, generateBtnDisabled,
                   downloadMp3Shown, audioSrc, voiceUsed, systemFetch, inflight,
                   submitted, previewTimeout, timers, previewSrc, previewPlaying,
                   previewCalls, previewFetched, previewWanted, stoppedAt, now>>

\* ------------------------------------------------------------------------
\* The capability gate
\* ------------------------------------------------------------------------

\* The test of script.js:154 negated: the hardware allows the Pro engine.
GateOpenIfFetched == hardware # NoHardware
GateOpenIfUnknown == hardware = NoHardware \/ hardware.can_run_pro
canRunPro == hardware # NoHardware /\ hardware.can_run_pro

\* The toast of a denied request for the Pro engine (script.js:155-161).
DeniedToastSwapped ==
    IF hardware # NoHardware /\ hardware.platform = "GPU_READY"
    THEN showToast("Please install NVIDIA drivers first", "warning")
    ELSE showToast("Pro Mode requires an NVIDIA GPU", "error")
deniedToast ==
    IF hardware # NoHardware /\ hardware.platform = "GPU_DRIVER_MISSING"
    THEN showToast("Please install NVIDIA drivers first", "warning")
    ELSE showToast("Pro Mode requires an NVIDIA GPU", "error")

\* selectModel(modelType) (script.js:149-174)
selectModel(modelType) ==
    /\ event' = [op |-> "selectModel", arg |-> modelType, from |-> currentModel]
    /\ IF modelType = currentModel
       THEN /\ effects' = <<>>
            /\ UNCHANGED currentModel
       ELSE IF modelType = "pro" /\ ~canRunPro
       THEN /\ effects' = << deniedToast >>
            /\ UNCHANGED currentModel
       ELSE /\ currentModel' = modelType
            /\ effects' = << showToast(IF modelType = "pro"
                                        THEN "Switched to Pro Engine"
                                        ELSE "Switched to Standard Engine", "success") >>
    /\ UNCHANGED <<selectedVoice, isGenerating, currentAudioUrl, currentAudioUrlMp3,
                   voices, hardware, domVars, loopVars, previewVars, now>>

\* ------------------------------------------------------------------------
\* The synthesis request orchestrator
\* ------------------------------------------------------------------------

\* The validation of generateVoice (script.js:200-211) on the content of the
\* text area: the message of the error toast, or null when the text passes.
validateOffByOne(value) ==
    LET text == Trim(value)
    IN IF Length(text) = 0 THEN "Please enter some text first"
       ELSE IF Length(text) >= MaxTextLen THEN "Text is too long (max 10,000 characters)"
       ELSE null
validate(value) ==
    LET text == Trim(value)
    IN IF Length(text) = 0 THEN "Please enter some text first"
       ELSE IF Length(text) > MaxTextLen THEN "Text is too long (max 10,000 characters)"
       ELSE null

\* updateUIState on the generate button (script.js:372):
\* elements.generateBtn.disabled = state.isGenerating.
ButtonStaysDisabled(generating) == TRUE
ButtonDisabled(generating) == generating

\* The body of the POST (script.js:223-229); the speed slider is left at 1.0.
Request(id, value) ==
    [id |-> id, text |-> Trim(value), voice |-> selectedVoice, format |-> "wav",
     model |-> currentModel]

\* generateVoice up to its first await (script.js:199-230), with the text
\* area holding `value`.
generateVoiceResetsOnReject(value) ==
    /\ event' = [op |-> "generateVoice", arg |-> value]
    /\ IF validate(value) # null
       THEN /\ effects' = << showToast(validate(value), "error") >>
            /\ surface' = "empty"
            /\ UNCHANGED <<isGenerating, generateBtnDisabled, inflight, submitted>>
       ELSE /\ submitted < MaxSubmits
            /\ isGenerating' = TRUE
            /\ generateBtnDisabled' = TRUE
            /\ surface' = "loading"
            /\ submitted' = submitted + 1
            /\ inflight' = inflight \cup {Request(submitted + 1, value)}
            /\ effects' = << Fetch("/api/synthesize", Request(submitted + 1, value)) >>
    /\ UNCHANGED <<selectedVoice, currentAudioUrl, currentAudioUrlMp3, voices,
                   currentModel, hardware, downloadMp3Shown, audioSrc, voiceUsed,
                   listening, systemFetch, voicesFetch, previewVars, now>>
generateVoice(value) ==
    /\ event' = [op |-> "generateVoice", arg |-> value]
    /\ IF validate(value) # null
       THEN /\ effects' = << showToast(validate(value), "error") >>
            /\ UNCHANGED <<isGenerating, surface, generateBtnDisabled, inflight, submitted>>
       ELSE /\ submitted < MaxSubmits
            /\ isGenerating' = TRUE
            \* updateUIState (script.js:370-380)
            /\ generateBtnDisabled' = ButtonDisabled(TRUE)
            /\ surface' = "loading"
            /\ submitted' = submitted + 1
            /\ inflight' = inflight \cup {Request(submitted + 1, value)}
            /\ effects' = << Fetch("/api/synthesize", Request(submitted + 1, value)) >>
    /\ UNCHANGED <<selectedVoice, currentAudioUrl, currentAudioUrlMp3, voices,
                   currentModel, hardware, downloadMp3Shown, audioSrc, voiceUsed,
                   listening, systemFetch, voicesFetch, previewVars, now>>

\* A click on the generate button (script.js:415); a disabled button
\* dispatches no click.
ClickGenerate(value) ==
    /\ listening
    /\ ~generateBtnDisabled
    /\ generateVoice(value)

\* Ctrl+Enter or Cmd+Enter in the text area (script.js:418-423).
CtrlEnter(value) ==
    /\ listening
    /\ generateVoice(value)

\* The secondary locator stored for a successful answer (script.js:241).
KeepOldMp3(data) == OrElse(data.audio_url_mp3, currentAudioUrlMp3)
StoredMp3(data) == data.audio_url_mp3

\* Whether the MP3 download button is displayed after a successful answer
\* (script.js:249-251).
Mp3ButtonAlways(data) == TRUE
Mp3ButtonShown(data) == Truthy(data.audio_url_mp3)

\* The label of voice `id` in the result (script.js:246):
\* state.voices[id]?.name || id.
VoiceLabel(id) == IF id \in voices THEN OrElse(VoiceName(id), id) ELSE id

\* The message of the error the try block throws for outcome o
\* (script.js:218-236), or null when it throws none.
Thrown(o) ==
    IF o.kind \in {"reject", "badjson"} THEN [thrown |-> TRUE, message |-> o.message]
    ELSE IF ~o.ok THEN [thrown |-> TRUE, message |-> OrElse(o.detail, "Generation failed")]
    ELSE [thrown |-> FALSE, message |-> ""]

\* generateVoice from its awaits to its end (script.js:232-268), for the
\* call r resolving as o.
generateVoiceResumes(r, o) ==
    /\ r \in inflight
    /\ inflight' = inflight \ {r}
    /\ event' = [op |-> "generateVoiceResumes", arg |-> o, request |-> r,
                 before |-> [url |-> currentAudioUrl, mp3 |-> currentAudioUrlMp3]]
    /\ IF Thrown(o).thrown
       THEN \* catch (script.js:261-264)
            /\ effects' = << [eff |-> "log", message |-> "Generation error:"],
                             showToast(OrElse(Thrown(o).message, "Failed to generate audio"),
                                       "error") >>
            /\ surface' = "empty"
            /\ UNCHANGED <<currentAudioUrl, currentAudioUrlMp3, audioSrc, voiceUsed,
                           downloadMp3Shown>>
       ELSE IF o.success
       THEN \* script.js:238-260
            /\ currentAudioUrl' = o.audio_url
            /\ currentAudioUrlMp3' = StoredMp3(o)
            /\ audioSrc' = o.audio_url
            /\ voiceUsed' = VoiceLabel(selectedVoice)
            /\ downloadMp3Shown' = Mp3ButtonShown(o)
            /\ surface' = "player"
            /\ effects' = << [eff |-> "play", message |-> o.audio_url],
                             showToast("Generated " \o formatDuration(o.duration)
                                         \o " of audio!", "success") >>
       ELSE /\ effects' = <<>>
            /\ UNCHANGED <<currentAudioUrl, currentAudioUrlMp3, audioSrc, voiceUsed,
                           downloadMp3Shown, surface>>
    \* finally (script.js:265-268): updateUIState with isGenerating = false
    /\ isGenerating' = FALSE
    /\ generateBtnDisabled' = ButtonDisabled(FALSE)
    /\ UNCHANGED <<selectedVoice, voices, currentModel, hardware, listening,
                   systemFetch, voicesFetch, submitted, previewVars, now>>

\* selectVoice(voiceId): a click on a voice card (script.js:335, 345-352).
selectVoice(voiceId) ==
    /\ voiceId \in voices
    /\ selectedVoice' = voiceId
    /\ event' = [op |-> "selectVoice", arg |-> voiceId]
    /\ effects' = <<>>
    /\ UNCHANGED <<isGenerating, currentAudioUrl, currentAudioUrlMp3, voices,
                   currentModel, hardware, domVars, loopVars, previewVars, now>>

\* ------------------------------------------------------------------------
\* The artifact actions
\* ------------------------------------------------------------------------

\* format.toUpperCase()
toUpperCase(format) == IF format = "mp3" THEN "MP3" ELSE "WAV"

\* The locator downloadAudio resolves for a format (script.js:455).
downloadUrlWithFallback(format) ==
    IF format = "mp3" THEN OrElse(currentAudioUrlMp3, currentAudioUrl) ELSE currentAudioUrl
downloadUrl(format) ==
    IF format = "mp3" THEN currentAudioUrlMp3 ELSE currentAudioUrl

\* downloadAudio(format): the download buttons (script.js:439-444, 454-470).
downloadAudio(format) ==
    /\ listening
    /\ event' = [op |-> "downloadAudio", arg |-> format]
    /\ LET url == downloadUrl(format)
       IN IF ~Truthy(url)
          THEN effects' = << showToast("No " \o toUpperCase(format) \o " audio to download",
                                       "error") >>
          ELSE effects' = << [eff |-> "download", message |-> url, format |-> format],
                             showToast(toUpperCase(format) \o " download started!",
                                       "success") >>
    /\ UNCHANGED <<stateVars, domVars, loopVars, previewVars, now>>

\* The locator copyAudioLink puts on the clipboard (script.js:473, 478).
copyUrlPreferMp3 == OrElse(currentAudioUrlMp3, currentAudioUrl)
copyUrl == currentAudioUrl

\* window.location.origin + url (script.js:478)
Absolute(url) == "http://localhost:8000" \o url

\* copyAudioLink: the copy button (script.js:447, 472-483); `written` tells
\* whether navigator.clipboard.writeText resolves.
copyAudioLink(written) ==
    /\ listening
    /\ event' = [op |-> "copyAudioLink", arg |-> written]
    /\ IF ~Truthy(copyUrl)
       THEN effects' = << showToast("No audio link to copy", "error") >>
       ELSE effects' = << [eff |-> "clipboard", message |-> Absolute(copyUrl)],
                          IF written THEN showToast("Link copied to clipboard!", "success")
                          ELSE showToast("Failed to copy link", "error") >>
    /\ UNCHANGED <<stateVars, domVars, loopVars, previewVars, now>>

\* ------------------------------------------------------------------------
\* The preview controller
\* ------------------------------------------------------------------------

\* clearTimeout(handle) (script.js:278, 300): the pending timers without it.
clearNothing(handle) == timers
clearTimeout(handle) == timers \ {handle}

\* playVoicePreview(voiceId): mouseenter on a voice card (script.js:338,
\* 275-295).  The new timer's handle is the index of the call.
playVoicePreviewKeepsPlaying(voiceId) ==
    /\ voiceId \in voices
    /\ Len(previewCalls) < MaxPreviews
    /\ LET handle == Len(previewCalls) + 1
           cleared == IF previewTimeout # 0 THEN clearTimeout(previewTimeout) ELSE timers
       IN /\ timers' = cleared \cup {handle}
          /\ previewTimeout' = handle
    /\ previewCalls' = Append(previewCalls, [voice |-> voiceId, at |-> now])
    /\ previewWanted' = TRUE
    /\ event' = [op |-> "playVoicePreview", arg |-> voiceId]
    /\ effects' = <<>>
    /\ UNCHANGED <<stateVars, domVars, loopVars, previewAudio, previewSrc,
                   previewPlaying, previewFetched, stoppedAt, now>>
playVoicePreview(voiceId) ==
    /\ voiceId \in voices
    /\ Len(previewCalls) < MaxPreviews
    /\ LET handle == Len(previewCalls) + 1
           cleared == IF previewTimeout # 0 THEN clearTimeout(previewTimeout) ELSE timers
       IN /\ timers' = cleared \cup {handle}
          /\ previewTimeout' = handle
    /\ previewPlaying' = IF previewAudio THEN FALSE ELSE previewPlaying
    /\ previewCalls' = Append(previewCalls, [voice |-> voiceId, at |-> now])
    /\ previewWanted' = TRUE
    /\ event' = [op |-> "playVoicePreview", arg |-> voiceId]
    /\ effects' = <<>>
    /\ UNCHANGED <<stateVars, domVars, loopVars, previewAudio, previewSrc,
                   previewFetched, stoppedAt, now>>

\* stopVoicePreview: mouseleave on a voice card (script.js:339, 297-309).
stopVoicePreviewAudioOnly ==
    /\ voices # {}
    /\ previewPlaying' = IF previewAudio THEN FALSE ELSE previewPlaying
    /\ previewWanted' = FALSE
    /\ stoppedAt' = now
    /\ event' = [op |-> "stopVoicePreview", arg |-> null]
    /\ effects' = <<>>
    /\ UNCHANGED <<stateVars, domVars, loopVars, previewAudio, previewSrc, previewTimeout,
                   timers, previewCalls, previewFetched, now>>
stopVoicePreview ==
    /\ voices # {}
    /\ timers' = IF previewTimeout # 0 THEN clearTimeout(previewTimeout) ELSE timers
    /\ previewTimeout' = 0
    /\ previewPlaying' = IF previewAudio THEN FALSE ELSE previewPlaying
    /\ previewWanted' = FALSE
    /\ stoppedAt' = now
    /\ event' = [op |-> "stopVoicePreview", arg |-> null]
    /\ effects' = <<>>
    /\ UNCHANGED <<stateVars, domVars, loopVars, previewAudio, previewSrc,
                   previewCalls, previewFetched, now>>

\* The instant from which the timer of call `handle` may fire.
Due(handle) == previewCalls[handle].at + PreviewDelay

\* The callback of setTimeout (script.js:288-294) for the timer `handle`; a
\* timer fires at its due instant or later.
previewTimerFiresOnPrimaryPlayer(handle) ==
    /\ handle \in timers
    /\ now >= Due(handle)
    /\ timers' = timers \ {handle}
    /\ audioSrc' = "/api/preview/" \o previewCalls[handle].voice
    /\ previewFetched' = previewFetched \cup {handle}
    /\ event' = [op |-> "previewTimerFires", arg |-> handle]
    /\ effects' = << Fetch("/api/preview/" \o previewCalls[handle].voice, NoBody) >>
    /\ UNCHANGED <<stateVars, surface, generateBtnDisabled, downloadMp3Shown, voiceUsed,
                   listening, loopVars, previewAudio, previewTimeout, previewSrc,
                   previewPlaying, previewCalls, previewWanted, stoppedAt, now>>
previewTimerFires(handle) ==
    /\ handle \in timers
    /\ now >= Due(handle)
    /\ timers' = timers \ {handle}
    /\ previewSrc' = previewCalls[handle].voice
    /\ previewPlaying' = TRUE
    /\ previewFetched' = previewFetched \cup {handle}
    /\ event' = [op |-> "previewTimerFires", arg |-> handle]
    /\ effects' = << Fetch("/api/preview/" \o previewCalls[handle].voice, NoBody) >>
    /\ UNCHANGED <<stateVars, domVars, loopVars, previewAudio, previewTimeout,
                   previewCalls, previewWanted, stoppedAt, now>>

\* state.previewAudio.play() rejects (script.js:290-293).
previewPlayRejectsLoudly ==
    /\ previewPlaying
    /\ previewPlaying' = FALSE
    /\ event' = [op |-> "previewPlayRejects", arg |-> null]
    /\ effects' = << showToast("Preview not ready or failed", "error") >>
    /\ UNCHANGED <<stateVars, domVars, loopVars, previewAudio, previewTimeout, timers,
                   previewSrc, previewCalls, previewFetched, previewWanted, stoppedAt,
                   now>>
previewPlayRejects ==
    /\ previewPlaying
    /\ previewPlaying' = FALSE
    /\ event' = [op |-> "previewPlayRejects", arg |-> null]
    /\ effects' = << [eff |-> "log", message |-> "Preview not ready or failed:"] >>
    /\ UNCHANGED <<stateVars, domVars, loopVars, previewAudio, previewTimeout, timers,
                   previewSrc, previewCalls, previewFetched, previewWanted, stoppedAt,
                   now>>

\* The preview sample plays to its end.
previewEnded ==
    /\ previewPlaying
    /\ previewPlaying' = FALSE
    /\ event' = [op |-> "previewEnded", arg |-> null]
    /\ effects' = <<>>
    /\ UNCHANGED <<stateVars, domVars, loopVars, previewAudio, previewTimeout, timers,
                   previewSrc, previewCalls, previewFetched, previewWanted, stoppedAt,
                   now>>

\* Time passes.
Tick(d) ==
    /\ now + d <= MaxTime
    /\ now' = now + d
    /\ event' = [op |-> "Tick", arg |-> d]
    /\ effects' = <<>>
    /\ UNCHANGED <<stateVars, domVars, loopVars, previewVars>>

\* ------------------------------------------------------------------------
\* Specifications
\* ------------------------------------------------------------------------

Startup ==
    \/ \E data \in HardwareResponses : checkHardwareStatus(data)
    \/ checkHardwareStatusFails
    \/ \E data \in VoicesResponses : loadVoices(data)
    \/ loadVoicesFails

Synthesis ==
    \/ \E m \in Models : selectModel(m)
    \/ \E value \in Texts : ClickGenerate(value)
    \/ \E value \in Texts : CtrlEnter(value)
    \/ \E r \in inflight, o \in Outcomes : generateVoiceResumes(r, o)
    \/ \E v \in VoiceIds : selectVoice(v)
    \/ \E f \in {"wav", "mp3"} : downloadAudio(f)
    \/ \E w \in BOOLEAN : copyAudioLink(w)

Preview ==
    \/ \E v \in VoiceIds : playVoicePreview(v)
    \/ stopVoicePreview
    \/ \E h \in 1..MaxPreviews : previewTimerFires(h)
    \/ previewPlayRejects
    \/ previewEnded
    \/ \E d \in Ticks : Tick(d)

\* The whole session.  The preview handlers leave stateVars, domVars and
\* loopVars unchanged and the other handlers leave previewVars and the clock
\* unchanged, so the properties below are checked on the two projections
\* that follow, whose state spaces TLC exhausts.
Next == Startup \/ Synthesis \/ Preview

Spec == Init /\ [][Next]_vars

\* The session without the preview controller.
NextSynthesis == Startup \/ Synthesis
SpecSynthesis == Init /\ [][NextSynthesis]_vars

\* The session without synthesis, model selection and artifact actions.
NextPreview == Startup \/ Preview
SpecPreview == Init /\ [][NextPreview]_vars

\* The preview controller in a session that is under way: start-up is over
\* (both start-up fetches rejected, so the fallback voices are in use) and the
\* orchestrator is idle, or generating, or showing a result.  Each of these
\* states is reached under SpecSynthesis.
InitMidSession ==
    /\ selectedVoice = "am_michael"
    /\ voices = {"am_michael", "af_heart"}
    /\ previewAudio = TRUE
    /\ previewTimeout = 0
    /\ currentModel = "kokoro"
    /\ hardware = NoHardware
    /\ listening = TRUE
    /\ systemFetch = "done"
    /\ voicesFetch = "done"
    /\ \/ \* Idle
          /\ isGenerating = FALSE /\ generateBtnDisabled = FALSE /\ surface = "empty"
          /\ currentAudioUrl = null /\ currentAudioUrlMp3 = null
          /\ downloadMp3Shown = FALSE /\ audioSrc = null /\ voiceUsed = null
          /\ inflight = {} /\ submitted = 0
       \/ \* Generating
          /\ isGenerating = TRUE /\ generateBtnDisabled = TRUE /\ surface = "loading"
          /\ currentAudioUrl = null /\ currentAudioUrlMp3 = null
          /\ downloadMp3Shown = FALSE /\ audioSrc = null /\ voiceUsed = null
          /\ inflight = {Request(1, Text(0, MaxTextLen, 0))} /\ submitted = 1
       \/ \* Ready
          /\ isGenerating = FALSE /\ generateBtnDisabled = FALSE /\ surface = "player"
          /\ currentAudioUrl = "/files/a.wav" /\ currentAudioUrlMp3 = "/files/a.mp3"
          /\ downloadMp3Shown = TRUE /\ audioSrc = "/files/a.wav"
          /\ voiceUsed = "Michael"
          /\ inflight = {} /\ submitted = 1
    /\ timers = {}
    /\ now = 0
    /\ previewSrc = null
    /\ previewPlaying = FALSE
    /\ previewCalls = <<>>
    /\ previewFetched = {}
    /\ previewWanted = FALSE
    /\ stoppedAt = -1
    /\ event = [op |-> "init"]
    /\ effects = <<>>

SpecPreviewMidSession == InitMidSession /\ [][Preview]_vars

\* The orchestrator and the preview controller side by side, in a session
\* that is under way: /api/system answered that the GPU is ready, /api/voices
\* listed both voices with am_michael as default, and nothing was submitted
\* yet.
\* This state is reached under SpecSynthesis.
InitConcurrent ==
    /\ selectedVoice = "am_michael"
    /\ voices = {"am_michael", "af_heart"}
    /\ previewAudio = TRUE
    /\ previewTimeout = 0
    /\ currentModel = "kokoro"
    /\ hardware = [platform |-> "GPU_READY", can_run_pro |-> TRUE]
    /\ listening = TRUE
    /\ systemFetch = "done"
    /\ voicesFetch = "done"
    /\ isGenerating = FALSE /\ generateBtnDisabled = FALSE /\ surface = "empty"
    /\ currentAudioUrl = null /\ currentAudioUrlMp3 = null
    /\ downloadMp3Shown = FALSE /\ audioSrc = null /\ voiceUsed = null
    /\ inflight = {} /\ submitted = 0
    /\ timers = {}
    /\ now = 0
    /\ previewSrc = null
    /\ previewPlaying = FALSE
    /\ previewCalls = <<>>
    /\ previewFetched = {}
    /\ previewWanted = FALSE
    /\ stoppedAt = -1
    /\ event = [op |-> "init"]
    /\ effects = <<>>

\* The ways a call resolves in the side-by-side session: the fetch rejects,
\* or the answer is a result without secondary locator.
ConcurrentOutcomes ==
    { o \in Outcomes :
        \/ o.kind = "reject"
        \/ o.success /\ o.audio_url = "/files/b.wav" /\ o.audio_url_mp3 = null }

\* The handlers of both sides, interleaved in any order: hovering over the
\* card of af_heart while selecting a model and a voice, submitting a valid
\* text by click, and receiving the answers.  The clock advances by the
\* preview delay.
NextConcurrent ==
    \/ playVoicePreview("af_heart")
    \/ stopVoicePreview
    \/ \E h \in 1..MaxPreviews : previewTimerFires(h)
    \/ previewPlayRejects
    \/ previewEnded
    \/ Tick(PreviewDelay)
    \/ \E m \in Models : selectModel(m)
    \/ ClickGenerate(Text(0, MaxTextLen, 0))
    \/ \E r \in inflight, o \in ConcurrentOutcomes : generateVoiceResumes(r, o)
    \/ \E v \in VoiceIds : selectVoice(v)

SpecConcurrent == InitConcurrent /\ [][NextConcurrent]_vars

\* ------------------------------------------------------------------------
\* Properties of the synthesis request orchestrator
\* ------------------------------------------------------------------------

\* The last action was generateVoice resuming on a failed synthesis.
FailureHandled == event.op = "generateVoiceResumes" /\ Failed(event.arg)

\* The last action was generateVoice resuming on a successful synthesis.
SuccessHandled == event.op = "generateVoiceResumes" /\ ~Failed(event.arg)

\* C1: at most one call to /api/synthesize is in flight, however often and
\* by whichever listener generateVoice is invoked.
C1_AtMostOneInFlight == Cardinality(inflight) <= 1

\* C2 as stated: a text that is empty after trimming, or whose length
\* exceeds 10,000, is rejected by generateVoice with exactly one error toast
\* and no call to /api/synthesize, and a text of exactly 10,000 characters is
\* accepted.
C2_RejectsEmptyOrLong ==
    event.op = "generateVoice" =>
        /\ (Length(Trim(event.arg)) = 0 \/ Length(event.arg) > MaxTextLen) =>
               /\ Fetches(effects, "/api/synthesize") = {}
               /\ Len(effects) = 1 /\ ErrorToasts(effects) = {1}
        /\ Length(event.arg) = MaxTextLen =>
               Fetches(effects, "/api/synthesize") # {}

\* C2 amended: a text whose length after trimming is 0 or exceeds 10,000 is
\* rejected by generateVoice with exactly one error toast and no call to
\* /api/synthesize, and a text of exactly 10,000 characters after trimming
\* is accepted.
C2_RejectsEmptyOrLongAfterTrim ==
    event.op = "generateVoice" =>
        /\ (Length(Trim(event.arg)) = 0 \/ Length(Trim(event.arg)) > MaxTextLen) =>
               /\ Fetches(effects, "/api/synthesize") = {}
               /\ Len(effects) = 1 /\ ErrorToasts(effects) = {1}
        /\ Length(Trim(event.arg)) = MaxTextLen =>
               /\ Fetches(effects, "/api/synthesize") # {}
               /\ Toasts(effects) = {}

\* generateVoice has rejected a text of 10,001 characters.
C2_Witness ==
    /\ event.op = "generateVoice"
    /\ Length(Trim(event.arg)) = MaxTextLen + 1
    /\ ErrorToasts(effects) = {1}

\* C3: once a failed synthesis has resolved, the loading indicator and the
\* player are hidden (the empty surface shows) and the in-progress flag is
\* false.
C3_FailureShowsEmptySurface ==
    FailureHandled => surface = "empty" /\ ~isGenerating

\* C4: after a failed synthesis no locator of an earlier generation is
\* held: both the primary and the secondary locator are cleared.
C4_FailureClearsLocators ==
    FailureHandled => ~Truthy(currentAudioUrl) /\ ~Truthy(currentAudioUrlMp3)

\* C5: after a successful synthesis the primary locator is the response's
\* audio_url and the secondary one its audio_url_mp3, absent when the
\* response has none; at all times the two locators held come from one
\* response.
C5_LocatorsFromResponse ==
    /\ SuccessHandled =>
           /\ currentAudioUrl = event.arg.audio_url
           /\ currentAudioUrlMp3 = event.arg.audio_url_mp3
    /\ \/ currentAudioUrl = null /\ currentAudioUrlMp3 = null
       \/ \E r \in Results : /\ currentAudioUrl = r.audio_url
                             /\ currentAudioUrlMp3 = r.audio_url_mp3

\* A response without audio_url_mp3 has replaced a result that had a
\* secondary locator.
C5_Witness ==
    /\ SuccessHandled
    /\ event.arg.audio_url_mp3 = null
    /\ Truthy(event.before.mp3)
    /\ currentAudioUrlMp3 = null

\* C10: a failed synthesis shows exactly one error toast, with the server's
\* detail as its message when the response carries one.
C10_FailureShowsOneError ==
    FailureHandled =>
        /\ Cardinality(ErrorToasts(effects)) = 1
        /\ Toasts(effects) = ErrorToasts(effects)
        /\ \A i \in ErrorToasts(effects) :
               /\ Truthy(effects[i].message)
               /\ Truthy(event.arg.detail) => effects[i].message = event.arg.detail

\* ------------------------------------------------------------------------
\* Properties of the capability gate
\* ------------------------------------------------------------------------

\* C8: the current model is 'pro' only if a hardware status has been
\* fetched and its can_run_pro is true.
C8_ProOnlyWhenCapable ==
    currentModel = "pro" => hardware # NoHardware /\ hardware.can_run_pro

\* The Pro engine has been selected.
C8_Witness ==
    /\ currentModel = "pro"
    /\ event.op = "selectModel"
    /\ event.from = "kokoro"

\* C9: selectModel('pro') with a hardware status whose can_run_pro is false
\* leaves the model unchanged and shows one toast: the driver hint exactly
\* when platform is GPU_DRIVER_MISSING, the no-GPU error otherwise.
C9_DeniedReason ==
    (/\ event.op = "selectModel"
     /\ event.arg = "pro"
     /\ hardware # NoHardware
     /\ ~hardware.can_run_pro) =>
        /\ currentModel = event.from
        /\ currentModel = "kokoro"
        /\ effects = << IF hardware.platform = "GPU_DRIVER_MISSING"
                        THEN showToast("Please install NVIDIA drivers first", "warning")
                        ELSE showToast("Pro Mode requires an NVIDIA GPU", "error") >>

\* The Pro engine has been denied for missing drivers.
C9_Witness ==
    /\ event.op = "selectModel"
    /\ event.arg = "pro"
    /\ hardware # NoHardware
    /\ hardware.platform = "GPU_DRIVER_MISSING"
    /\ ~hardware.can_run_pro
    /\ effects = << showToast("Please install NVIDIA drivers first", "warning") >>

\* ------------------------------------------------------------------------
\* Properties of the preview controller
\* ------------------------------------------------------------------------

\* C6: a playVoicePreview call that is followed by another one less than
\* 300 ms later never has its timer fire, so of calls made in quick
\* succession only the last one's voice is fetched; only the latest call's
\* timer is ever pending.
C6_OnlyLastOfBurstFetched ==
    /\ \A h \in previewFetched :
           h < Len(previewCalls) =>
               previewCalls[h + 1].at - previewCalls[h].at >= PreviewDelay
    /\ timers \subseteq {Len(previewCalls)}

\* Two calls for different voices less than 300 ms apart; the second one's
\* timer has fired and the first one's has not.
C6_Witness ==
    \E h \in previewFetched :
        /\ h > 1
        /\ previewCalls[h].at - previewCalls[h - 1].at < PreviewDelay
        /\ previewCalls[h].voice # previewCalls[h - 1].voice
        /\ (h - 1) \notin previewFetched
        /\ previewSrc = previewCalls[h].voice

\* C7: after stopVoicePreview, and until the next playVoicePreview, no
\* timer is pending and the preview audio is not playing; when the stop came
\* before the latest call's timer was due, that call is never fetched.
C7_CancelledPreviewNeverStarts ==
    ~previewWanted =>
        /\ timers = {}
        /\ ~previewPlaying
        /\ (Len(previewCalls) > 0 /\ stoppedAt < Due(Len(previewCalls))) =>
               Len(previewCalls) \notin previewFetched

\* A preview was cancelled before its timer was due, and its due instant
\* has passed.
C7_Witness ==
    /\ ~previewWanted
    /\ Len(previewCalls) > 0
    /\ stoppedAt >= previewCalls[Len(previewCalls)].at
    /\ stoppedAt < Due(Len(previewCalls))
    /\ now >= Due(Len(previewCalls))

\* ------------------------------------------------------------------------
\* Properties of the artifact actions
\* ------------------------------------------------------------------------

\* The locator held for a format.
Locator(format) == IF format = "mp3" THEN currentAudioUrlMp3 ELSE currentAudioUrl

Downloads(es) == { i \in 1..Len(es) : es[i].eff = "download" }
ClipboardWrites(es) == { i \in 1..Len(es) : es[i].eff = "clipboard" }

\* C11: downloadAudio(format) with no locator of that format shows one
\* error toast, starts no download and changes no state; with one, the
\* download it starts is of that locator, never of the other format's.
C11_DownloadsRequestedFormatOnly ==
    /\ [](event.op = "downloadAudio" =>
            IF ~Truthy(Locator(event.arg))
            THEN /\ Downloads(effects) = {}
                 /\ Len(effects) = 1 /\ ErrorToasts(effects) = {1}
            ELSE /\ Downloads(effects) = {1}
                 /\ effects[1].message = Locator(event.arg)
                 /\ effects[1].format = event.arg)
    /\ [][(event'.op = "downloadAudio" /\ ~Truthy(Locator(event'.arg))) =>
            UNCHANGED <<stateVars, domVars, loopVars, previewVars, now>>]_vars

\* The MP3 download was asked for while only the WAV locator is held, and
\* was refused.
C11_Witness ==
    /\ event.op = "downloadAudio"
    /\ event.arg = "mp3"
    /\ Truthy(currentAudioUrl)
    /\ ~Truthy(currentAudioUrlMp3)
    /\ effects = << showToast("No MP3 audio to download", "error") >>

\* C12: copyAudioLink with no current result shows one error toast and
\* writes nothing to the clipboard; with one it writes the origin followed by
\* the primary locator, never the secondary one.
C12_CopiesPrimaryLocator ==
    event.op = "copyAudioLink" =>
        IF ~Truthy(currentAudioUrl)
        THEN /\ ClipboardWrites(effects) = {}
             /\ Len(effects) = 1 /\ ErrorToasts(effects) = {1}
        ELSE /\ ClipboardWrites(effects) = {1}
             /\ effects[1].message = Absolute(currentAudioUrl)
             /\ effects[1].message # Absolute(currentAudioUrlMp3)

\* The link was copied while a secondary locator is held too.
C12_Witness ==
    /\ event.op = "copyAudioLink"
    /\ Truthy(currentAudioUrl)
    /\ Truthy(currentAudioUrlMp3)
    /\ ClipboardWrites(effects) = {1}

\* C13: while a generation is in progress, downloadAudio and copyAudioLink
\* resolve no locator: neither a download nor a clipboard write of the
\* previous generation's locators happens.
C13_GeneratingInvalidatesLocators ==
    isGenerating =>
        /\ event.op = "downloadAudio" => Downloads(effects) = {}
        /\ event.op = "copyAudioLink" => ClipboardWrites(effects) = {}

\* C14: every call to /api/synthesize carries a voice id that is a key of
\* state.voices; a submission with another selected voice issues no call.
C14_RequestVoiceIsKnown ==
    event.op = "generateVoice" =>
        \A i \in Fetches(effects, "/api/synthesize") : effects[i].body.voice \in voices

\* C15: a rejected play of the preview shows no toast and leaves the
\* synthesis state (the state object, the display, the pending calls) as it
\* was.
C15_PreviewFailureIsSilent ==
    /\ [](event.op = "previewPlayRejects" => Toasts(effects) = {})
    /\ [][event'.op = "previewPlayRejects" =>
            UNCHANGED <<stateVars, domVars, loopVars>>]_vars

\* A preview failed to play while a generation is in progress.
C15_Witness ==
    /\ event.op = "previewPlayRejects"
    /\ isGenerating
    /\ surface = "loading"
    /\ inflight # {}

\* ------------------------------------------------------------------------
\* Further properties of the gate and the orchestrator
\* ------------------------------------------------------------------------

\* The fetch of /api/system has failed: it is over and has stored nothing.
HardwareFetchFailed == systemFetch = "done" /\ hardware = NoHardware

\* A text that passes validation.
ValidText == Text(0, MaxTextLen, 0)

\* C16: once the hardware fetch has failed the hardware status stays unset;
\* the failure shows no toast; the voices can still be loaded; a valid text
\* can still be submitted, in standard mode; and every selectModel('pro') is
\* denied with the no-GPU error.
C16_HardwareFailureIsSoft ==
    /\ [](HardwareFetchFailed =>
            /\ currentModel = "kokoro"
            /\ event.op = "checkHardwareStatusFails" => Toasts(effects) = {}
            /\ (event.op = "selectModel" /\ event.arg = "pro") =>
                   effects = << showToast("Pro Mode requires an NVIDIA GPU", "error") >>
            /\ voicesFetch = "pending" =>
                   \A data \in VoicesResponses : ENABLED loadVoices(data)
            /\ (listening /\ submitted < MaxSubmits) =>
                   /\ ENABLED CtrlEnter(ValidText)
                   /\ ~generateBtnDisabled => ENABLED ClickGenerate(ValidText)
            /\ \A r \in inflight : r.model = "kokoro")
    /\ [][HardwareFetchFailed => HardwareFetchFailed']_vars

\* After the hardware fetch failed, the voices were loaded and a synthesis
\* was submitted.
C16_Witness ==
    /\ HardwareFetchFailed
    /\ voices # {}
    /\ event.op = "generateVoice"
    /\ Fetches(effects, "/api/synthesize") = {1}
    /\ effects[1].body.model = "kokoro"

\* C17: when a call to /api/synthesize has resolved, in whatever way, the
\* in-progress flag is false and the generate button is enabled, so the same
\* text can be submitted again; every accepted submission issues exactly one
\* new call of its own.
C17_ResolvedCallReenablesSubmit ==
    /\ event.op = "generateVoiceResumes" =>
           /\ ~isGenerating
           /\ ~generateBtnDisabled
           /\ submitted < MaxSubmits => ENABLED ClickGenerate(event.request.text)
    /\ (event.op = "generateVoice" /\ validate(event.arg) = null) =>
           /\ effects = << Fetch("/api/synthesize", Request(submitted, event.arg)) >>
           /\ Request(submitted, event.arg) \in inflight
           /\ \A r \in inflight : r.id <= submitted
           /\ submitted >= 1

\* A second submission was made after the first call had resolved.
C17_Witness ==
    /\ event.op = "generateVoice"
    /\ submitted = 2
    /\ inflight = {Request(2, event.arg)}
    /\ Fetches(effects, "/api/synthesize") = {1}

\* C18: whenever the player is visible, the MP3 download button is displayed
\* only if a secondary locator is held.
C18_Mp3ButtonOnlyWithLocator ==
    surface = "player" => (downloadMp3Shown => Truthy(currentAudioUrlMp3))

\* A result without secondary locator has replaced one that had it, and the
\* MP3 button is hidden.
C18_Witness ==
    /\ SuccessHandled
    /\ surface = "player"
    /\ Truthy(event.before.mp3)
    /\ ~Truthy(currentAudioUrlMp3)
    /\ ~downloadMp3Shown

\* C19: a generateVoice call rejected by the validation changes nothing of
\* the state object, the display or the pending calls.
C19_RejectionChangesNothing ==
    [][(event'.op = "generateVoice" /\ validate(event'.arg) # null) =>
          UNCHANGED <<stateVars, domVars, loopVars, previewVars, now>>]_vars

\* A text was rejected while the player shows a result.
C19_Witness ==
    /\ event.op = "generateVoice"
    /\ validate(event.arg) # null
    /\ ErrorToasts(effects) = {1}
    /\ surface = "player"
    /\ Truthy(currentAudioUrl)

\* The last action handled the response to a call made before a later call
\* was issued.
StaleResponseHandled ==
    event.op = "generateVoiceResumes" /\ event.request.id < submitted

\* C20: the response to an earlier submission that arrives after a later
\* submission was made changes neither the locators, nor the display, nor
\* the in-progress flag.
C20_StaleResponseIsSuppressed ==
    StaleResponseHandled =>
        /\ currentAudioUrl = event.before.url
        /\ currentAudioUrlMp3 = event.before.mp3
        /\ inflight # {} => (isGenerating /\ generateBtnDisabled /\ surface = "loading")

\* ------------------------------------------------------------------------
\* Properties of the two controllers side by side
\* ------------------------------------------------------------------------

\* The step is taken by playVoicePreview, stopVoicePreview or the callback
\* of the preview timer.
PreviewStep ==
    event'.op \in {"playVoicePreview", "stopVoicePreview", "previewTimerFires"}

\* The step is taken by generateVoice: a submission, or the handling of an
\* answer.
SynthesisStep == event'.op \in {"generateVoice", "generateVoiceResumes"}

\* C21: playVoicePreview, stopVoicePreview and the firing of the preview
\* timer leave the in-progress flag, the locators, the model, the selected
\* voice and the primary player unchanged (and start no playback on it), and
\* the steps of generateVoice leave the preview timer and the preview audio
\* unchanged.
C21_PreviewAndSynthesisIndependent ==
    /\ [][PreviewStep =>
            /\ UNCHANGED <<isGenerating, currentAudioUrl, currentAudioUrlMp3,
                           currentModel, selectedVoice, audioSrc, surface, inflight>>
            /\ \A i \in 1..Len(effects') : effects'[i].eff # "play"]_vars
    /\ [][SynthesisStep =>
            UNCHANGED <<previewTimeout, timers, previewAudio, previewSrc,
                        previewPlaying>>]_vars

\* A result arrived, in pro mode and with the other voice selected, while
\* the timer of a later preview was pending and after an earlier preview had
\* been fetched.
C21_Witness ==
    /\ SuccessHandled
    /\ timers = {previewTimeout}
    /\ previewFetched # {}
    /\ currentModel = "pro"
    /\ selectedVoice = "af_heart"

\* C22: at every moment at most one preview timer is pending; after every
\* playVoicePreview the only pending timer is the one it scheduled and the
\* preview audio is stopped; so the preview audio is never playing while a
\* preview timer is pending.
C22_CancelBeforeStart ==
    /\ Cardinality(timers) <= 1
    /\ ~(previewPlaying /\ timers # {})
    /\ event.op = "playVoicePreview" => (timers = {previewTimeout} /\ ~previewPlaying)

\* The third playVoicePreview of a session without stopVoicePreview: the
\* first preview was fetched, the timer of the second was cancelled by the
\* third, whose timer is the only one pending.
C22_Witness ==
    /\ event.op = "playVoicePreview"
    /\ Len(previewCalls) = 3
    /\ previewFetched = {1}
    /\ stoppedAt = -1
    /\ timers = {3}
    /\ ~previewPlaying

\* C23: the voice shown for a generated result (by its display name, or by
\* its id when it has none) is the voice that was sent in the request that
\* produced the result, also when selectVoice was called between the
\* submission and the arrival of its response.
C23_ShownVoiceIsRequestVoice ==
    SuccessHandled => voiceUsed = VoiceLabel(event.request.voice)

====
